---- MODULE Spec2Model ----
(***************************************************************************)
(* github-gql-tool: the query / retry / paginate / accumulate pipeline of  *)
(* ghgql/repos_and_commit_counts.py and ghgql/lib/__init__.py, and the CSV *)
(* report writer.                                                          *)
(*                                                                         *)
(* Two specifications share the variables:                                 *)
(*   Spec     one run of counts_report: pagination over the Request        *)
(*            Executor (fetch_github_data / _request) against a Transport  *)
(*            that may answer anything, then write_csv of the rows;        *)
(*   SpecCsv  any sequence of write_csv calls on one path.                 *)
(*                                                                         *)
(* Python's None / absent values are modelled as the empty sequence where  *)
(* the value is optional (a sequence of zero or one element), because the  *)
(* code reads them with dict.get(key, None) and tests truthiness or        *)
(* `is None`.                                                              *)
(***************************************************************************)
EXTENDS Integers, Sequences, FiniteSets, TLC

(* ---------------------------------------------------------------------- *)
(* Program constants                                                       *)
(* ---------------------------------------------------------------------- *)
MAX_ATTEMPTS == 3

BAD_CREDENTIALS == "Bad credentials"

(* ---------------------------------------------------------------------- *)
(* Bounds of the model                                                     *)
(* ---------------------------------------------------------------------- *)
\* pages one pagination may fetch before the model stops following it
MaxPages == 3

\* lines a CSV file may hold before the model stops calling write_csv on it
MaxLines == 5

(* ---------------------------------------------------------------------- *)
(* Values of report rows: None, int, str, date, all of one record shape    *)
(* ---------------------------------------------------------------------- *)
PyNone == [t |-> "None", n |-> 0, s |-> ""]

PyInt(n) == [t |-> "int", n |-> n, s |-> ""]

PyStr(s) == [t |-> "str", n |-> 0, s |-> s]

PyDate(s) == [t |-> "date", n |-> 0, s |-> s]

(* ---------------------------------------------------------------------- *)
(* lib.time.as_date: the first ten characters (the date part) of a         *)
(* datetime string, as a date. A datetime string is a record of its date   *)
(* part and the rest.                                                      *)
(* ---------------------------------------------------------------------- *)
as_date(datetime_str) == PyDate(datetime_str.date)

(* ---------------------------------------------------------------------- *)
(* Repository nodes as the API returns them. defaultBranch is a sequence   *)
(* of zero (null: an empty repo) or one branch.                            *)
(* ---------------------------------------------------------------------- *)
Commit1 == [committedDate |-> [date |-> "2020-01-02", rest |-> "T03:04:05Z"],
            message |-> <<"Add feature", "", "Body text">>]

NodeEmptyRepo == [owner |-> "octocat", name |-> "empty",
                  defaultBranch |-> <<>>]

NodeNoCommits == [owner |-> "octocat", name |-> "fresh",
                  defaultBranch |-> <<[name |-> "main", totalCount |-> 0,
                                       nodes |-> <<>>]>>]

NodeWithCommits == [owner |-> "octocat", name |-> "hello",
                    defaultBranch |-> <<[name |-> "master", totalCount |-> 7,
                                         nodes |-> <<Commit1>>]>>]

(* ---------------------------------------------------------------------- *)
(* format_repo: one row per node, never a skip                             *)
(* ---------------------------------------------------------------------- *)
FIELDNAMES == <<"owner_name", "repo_name", "branch_name", "total_commits",
                "last_committed_date", "last_commit_msg_subject">>

format_repo(repo) ==
    LET branch == repo.defaultBranch
        has_branch == branch # <<>>
        total_commits == IF has_branch THEN branch[1].totalCount ELSE 0
        has_commits == has_branch /\ total_commits # 0
    IN [owner_name |-> PyStr(repo.owner),
        repo_name |-> PyStr(repo.name),
        branch_name |-> IF has_branch THEN PyStr(branch[1].name) ELSE PyNone,
        total_commits |-> PyInt(total_commits),
        last_committed_date |->
            IF has_commits THEN as_date(branch[1].nodes[1].committedDate)
            ELSE PyNone,
        last_commit_msg_subject |->
            IF has_commits THEN PyStr(Head(branch[1].nodes[1].message))
            ELSE PyNone]

RECURSIVE format_nodes(_)
\* the `for repo in repositories['nodes']` loop: rows in the API's order
format_nodes(nodes) ==
    IF nodes = <<>> THEN <<>>
    ELSE <<format_repo(Head(nodes))>> \o format_nodes(Tail(nodes))

(* ---------------------------------------------------------------------- *)
(* The variables mapping: a Python dict, kept in insertion order as a      *)
(* sequence of <<key, value>> pairs with distinct keys.                    *)
(* ---------------------------------------------------------------------- *)
dict_has(d, k) == \E j \in 1..Len(d) : d[j][1] = k

dict_get(d, k) ==
    IF dict_has(d, k)
    THEN <<d[CHOOSE j \in 1..Len(d) : d[j][1] = k][2]>>
    ELSE <<>>

\* d[k] = v: replaces the value of an existing key in place, else appends
dict_set(d, k, v) ==
    IF dict_has(d, k)
    THEN [j \in 1..Len(d) |-> IF d[j][1] = k THEN <<k, v>> ELSE d[j]]
    ELSE Append(d, <<k, v>>)

RECURSIVE dict_tokens(_)
dict_tokens(d) ==
    IF d = <<>> THEN <<>>
    ELSE <<d[1][1], ":", d[1][2]>> \o dict_tokens(Tail(d))

(* ---------------------------------------------------------------------- *)
(* Files of text: a file exists or not, and holds a sequence of tokens.    *)
(* write_file opens with "w": the previous content is replaced.            *)
(* json.dumps renders the payload dict as its tokens, in key order.        *)
(* ---------------------------------------------------------------------- *)
NoFile == [exists |-> FALSE, text |-> <<>>]

json_dumps(payload) ==
    <<"{", "query", ":", payload.query, "variables", ":", "{">>
        \o dict_tokens(payload.variables) \o <<"}", "}">>

\* write_file of a str: written as it is
write_file_str(content) == [exists |-> TRUE, text |-> <<content>>]

\* write_file of a list or dict: json.dumps first
write_file_dict(content) == [exists |-> TRUE, text |-> json_dumps(content)]

(* ---------------------------------------------------------------------- *)
(* Transport responses: parsed JSON with optional message, errors, data.   *)
(*   message  a string, NoMessage when the key is absent                   *)
(*   errors   a sequence; <<>> stands for an absent key, null and []       *)
(*            alike, which `if errors:` does not tell apart                *)
(*   data     <<>> for an absent key or null, else <<payload>>             *)
(* The data payload of the repos query is reduced to the paged collection  *)
(* data.repositoryOwner.repositories.                                      *)
(* ---------------------------------------------------------------------- *)
NoMessage == "<absent>"

Cursors == {"Y3Vyc29yOjE=", "Y3Vyc29yOjI="}

NodeLists == {<<>>, <<NodeWithCommits, NodeEmptyRepo>>}

TotalCounts == {2, 250}

Repositories ==
    [totalCount : TotalCounts, nodes : NodeLists,
     hasNextPage : BOOLEAN, endCursor : Cursors]

ErrorLists == {<<>>, <<"Field 'x' doesn't exist">>,
               <<"API rate limit exceeded">>}

PartialData == [totalCount |-> 2, nodes |-> <<NodeWithCommits, NodeEmptyRepo>>,
                hasNextPage |-> TRUE, endCursor |-> "Y3Vyc29yOjI="]

Responses ==
    [message : {NoMessage}, errors : {<<>>},
     data : {<<r>> : r \in Repositories}]
    \cup
    [message : {NoMessage, BAD_CREDENTIALS, "Not Found",
                "API rate limit exceeded for 203.0.113.7"},
     errors : ErrorLists,
     data : {<<>>, <<PartialData>>}]

(* ---------------------------------------------------------------------- *)
(* _request: validation of one Transport response                          *)
(* ---------------------------------------------------------------------- *)
IsBadCredentials(resp_json) == resp_json.message = BAD_CREDENTIALS

HasErrors(resp_json) == resp_json.errors # <<>>

DataIsNone(resp_json) == resp_json.data = <<>>

\* mutant: the errors list is looked at before the message
Outcome_ErrorsFirst(resp_json) ==
    IF HasErrors(resp_json) THEN "ValueError"
    ELSE IF IsBadCredentials(resp_json) THEN "exit"
    ELSE IF DataIsNone(resp_json) THEN "ValueError"
    ELSE "ok"

\* mutant: a response with data is accepted whatever its errors list holds
Outcome_DataFirst(resp_json) ==
    IF IsBadCredentials(resp_json) THEN "exit"
    ELSE IF ~DataIsNone(resp_json) THEN "ok"
    ELSE "ValueError"

\* "exit": sys.exit(1); "ValueError": the typed recoverable error;
\* "ok": the response is returned
Outcome(resp_json) ==
    IF IsBadCredentials(resp_json) THEN "exit"
    ELSE IF HasErrors(resp_json) THEN "ValueError"
    ELSE IF DataIsNone(resp_json) THEN "ValueError"
    ELSE "ok"

\* the diagnostic files are written on the `if errors:` branch only
WritesDiagnostics(resp_json) ==
    ~IsBadCredentials(resp_json) /\ HasErrors(resp_json)

\* mutant: the payload file is given the query text too
request_files_QueryTwice(payload, resp_json, files) ==
    IF WritesDiagnostics(resp_json)
    THEN [query |-> write_file_str(payload.query),
          payload |-> write_file_str(payload.query)]
    ELSE files

\* the files at ERROR_QUERY_PATH and ERROR_PAYLOAD_PATH after _request
request_files(payload, resp_json, files) ==
    IF WritesDiagnostics(resp_json)
    THEN [query |-> write_file_str(payload.query),
          payload |-> write_file_dict(payload)]
    ELSE files

(* ---------------------------------------------------------------------- *)
(* fetch_github_data                                                       *)
(* ---------------------------------------------------------------------- *)
\* mutant: the payload is sent without the variables
make_payload_NoVariables(q, v) == [query |-> q, variables |-> <<>>]

\* `payload = {"query": query, "variables": variables}`
make_payload(q, v) == [query |-> q, variables |-> v]

\* mutant: the attempt counter of the previous call is carried over
first_attempt_Carried(i) == i

\* `for i in range(MAX_ATTEMPTS)`: the loop of a new call starts at 0,
\* wherever the loop of the previous call ended
first_attempt(i) == 0

\* mutant: the error is re-raised one attempt early
IsFinalAttempt_Early(attempt) == attempt + 1 >= MAX_ATTEMPTS - 1

\* mutant: `if i == MAX_ATTEMPTS`, which no i of the range satisfies
IsFinalAttempt_OffByOne(attempt) == attempt = MAX_ATTEMPTS

\* `if i + 1 == MAX_ATTEMPTS: raise`
IsFinalAttempt(attempt) == attempt + 1 = MAX_ATTEMPTS

\* the texts of the model's responses that hold the substring "rate"
RateTexts == {"API rate limit exceeded",
              "API rate limit exceeded for 203.0.113.7"}

\* the texts that str(e) of _request's ValueError holds: prettify(errors)
\* renders the errors list, prettify(resp_json) the whole response
rendering(resp_json) ==
    IF HasErrors(resp_json)
    THEN {resp_json.errors[j] : j \in 1..Len(resp_json.errors)}
    ELSE {resp_json.message}
         \cup {resp_json.errors[j] : j \in 1..Len(resp_json.errors)}

\* `"rate" in str(e)`
has_rate(resp_json) == rendering(resp_json) \cap RateTexts # {}

\* mutant: the notice is printed before the final attempt's re-raise
rate_notice_Always(i, resp_json) == has_rate(resp_json)

\* whether pass i of the loop prints "RATE LIMITED" for the ValueError that
\* resp_json raised: the re-raise of the final attempt comes first
rate_notice(i, resp_json) == ~IsFinalAttempt(i) /\ has_rate(resp_json)

\* mutant: the sleep doubles with every attempt
seconds_Doubling(i) == 2 ^ i

\* `seconds = 1` on pass i of the loop
seconds(i) == 1

\* mutant: the data of the response is not what is returned
fetch_return_None(rj) == <<>>

\* `return resp_json.get("data", None)`; resp_json is {} until a success
fetch_return(rj) == IF rj = <<>> THEN <<>> ELSE rj[1].data

(* ---------------------------------------------------------------------- *)
(* write_csv. A CSV file is a sequence of lines, a line a sequence of      *)
(* cells (strings). csv.DictWriter writes None as the empty string and     *)
(* every other value as str(value).                                        *)
(* ---------------------------------------------------------------------- *)
csv_str(v) ==
    IF v.t = "None" THEN ""
    ELSE IF v.t = "int" THEN ToString(v.n)
    ELSE v.s

row_line(row, fieldnames) ==
    [j \in 1..Len(fieldnames) |-> csv_str(row[fieldnames[j]])]

row_lines(rows, fieldnames) ==
    [j \in 1..Len(rows) |-> row_line(rows[j], fieldnames)]

\* mutant: the file is opened for appending in both modes
open_mode_AlwaysAppend(append) == "a"

\* `mode = "a" if append else "w"`
open_mode(append) == IF append THEN "a" ELSE "w"

\* mutant: every call that writes rows writes the header first
writes_header_Always(is_new_file, append) == TRUE

\* mutant: the header is written to a new file only
writes_header_OnlyNew(is_new_file, append) == is_new_file

\* `if is_new_file or not append: writer.writeheader()`
writes_header(is_new_file, append) == is_new_file \/ ~append

\* mutant: no early return for an empty row set (the header, which needs a
\* first row, is then left out)
write_csv_NoEmptyCheck(file, rows, append) ==
    LET is_new_file == ~file.exists
        at_open == IF open_mode(append) = "w" THEN <<>> ELSE file.text
        header == rows # <<>> /\ writes_header(is_new_file, append)
    IN [file |-> [exists |-> TRUE,
                  text |-> at_open
                           \o (IF header THEN <<FIELDNAMES>> ELSE <<>>)
                           \o row_lines(rows, FIELDNAMES)],
        opened |-> TRUE,
        header |-> header]

\* the file at `path` after write_csv(path, rows, append), with what the
\* call did: whether it opened the file and whether it wrote a header
write_csv(file, rows, append) ==
    IF rows = <<>>
    THEN [file |-> file, opened |-> FALSE, header |-> FALSE]
    ELSE LET is_new_file == ~file.exists
             mode == open_mode(append)
             fieldnames == FIELDNAMES
             at_open == IF mode = "w" THEN <<>> ELSE file.text
             header == writes_header(is_new_file, append)
         IN [file |-> [exists |-> TRUE,
                       text |-> at_open
                                \o (IF header THEN <<fieldnames>> ELSE <<>>)
                                \o row_lines(rows, fieldnames)],
             opened |-> TRUE,
             header |-> header]

(* ---------------------------------------------------------------------- *)
(* process_variables                                                       *)
(* ---------------------------------------------------------------------- *)
\* lib.time.as_git_timestamp: strptime(date_str, '%Y-%m-%d').isoformat().
\* A string strptime accepts is given by its timestamp; any other string
\* (the empty one too) makes strptime raise ValueError.
GitTimestamps == {<<"2020-01-01", "2020-01-01T00:00:00">>,
                  <<"2020-1-1", "2020-01-01T00:00:00">>}

is_date(date_str) == \E p \in GitTimestamps : p[1] = date_str

as_git_timestamp(date_str) ==
    (CHOOSE p \in GitTimestamps : p[1] = date_str)[2]

\* the booleans True and False as values of the variables dict
PY_TRUE == "<bool True>"

PY_FALSE == "<bool False>"

\* lib.text.parse_bool, for the strings "true" and "false"
parse_bool(value) == IF value = "true" THEN PY_TRUE ELSE PY_FALSE

\* variables.pop(k, None): the dict without the key
dict_pop(d, k) == SelectSeq(d, LAMBDA kv : kv[1] # k)

RECURSIVE dict_zip(_, _)
\* dict(zip(args[::2], args[1::2])), the pairs from pair number j on; zip
\* stops at the shorter list, a later duplicate key replaces the value
dict_zip(a, j) ==
    IF 2 * j > Len(a) THEN <<>>
    ELSE LET rest == dict_zip(a, j + 1)
             k == a[2 * j - 1]
         IN IF dict_has(rest, k) THEN <<<<k, dict_get(rest, k)[1]>>>>
                                          \o dict_pop(rest, k)
            ELSE <<<<k, a[2 * j]>>>> \o rest

\* mutant: the length of the argument list is not checked
has_uneven_pairs_Unchecked(a) == FALSE

\* `if len(args) % 2:`
has_uneven_pairs(a) == Len(a) % 2 = 1

\* `start = variables.pop("start", None); if start: variables["since"] = ...`
\* a None and an empty string are both falsy
with_since(d) ==
    LET start == dict_get(d, "start")
        popped == dict_pop(d, "start")
    IN IF start # <<>> /\ start[1] # ""
       THEN dict_set(popped, "since", as_git_timestamp(start[1]))
       ELSE popped

\* `is_fork_arg = variables.pop("isFork", None); if is_fork_arg: ...`
with_is_fork(d) ==
    LET is_fork_arg == dict_get(d, "isFork")
        popped == dict_pop(d, "isFork")
    IN IF is_fork_arg # <<>> /\ is_fork_arg[1] # ""
       THEN dict_set(popped, "isFork", parse_bool(is_fork_arg[1]))
       ELSE popped

\* whether as_git_timestamp is reached with a string strptime rejects
start_is_invalid(d) ==
    LET start == dict_get(d, "start")
    IN start # <<>> /\ start[1] # "" /\ ~is_date(start[1])

\* process_variables(args): the mapping, or the ValueError it raises
process_variables(a) ==
    IF a = <<>> THEN [raised |-> FALSE, value |-> <<>>]
    ELSE IF has_uneven_pairs(a) THEN [raised |-> TRUE, value |-> <<>>]
    ELSE LET zipped == dict_zip(a, 1)
         IN IF start_is_invalid(zipped) THEN [raised |-> TRUE, value |-> <<>>]
            ELSE [raised |-> FALSE, value |-> with_is_fork(with_since(zipped))]

\* main: `not args or set(args).intersection({'-h', '--help'})`
wants_usage(a) ==
    a = <<>> \/ \E j \in 1..Len(a) : a[j] \in {"-h", "--help"}

(* ---------------------------------------------------------------------- *)
(* State                                                                   *)
(* ---------------------------------------------------------------------- *)
VARIABLES
    pc,          \* where the run is
    query,       \* the text of the query file at QUERY_PATH
    variables,   \* the variables dict (one object, shared with the caller)
    count,       \* get_repos_and_commit_counts: the page counter
    repo_data,   \* get_repos_and_commit_counts: the accumulator
    resp_data,   \* get_repos_and_commit_counts: the executor's return value
    payload,     \* fetch_github_data: the payload of this call
    attempt,     \* fetch_github_data: i of `for i in range(MAX_ATTEMPTS)`
    resp_json,   \* fetch_github_data: <<>> for {} until _request returns
    files,       \* the files at ERROR_QUERY_PATH and ERROR_PAYLOAD_PATH
    csv_file,    \* the CSV file at the report path
    resp,        \* log: the Transport response of the latest call, if any
    wrote,       \* log: whether the latest _request wrote the two files
    sent,        \* log: the payloads sent by this fetch_github_data call
    got,         \* log: the shape of each response to this call
    sleeps,      \* log: the sleep() calls of this fetch_github_data call
    calls,       \* log: the Transport calls of the run
    requests,    \* log: the variables of each executor request of the run
    pages,       \* log: the pages the executor returned, in order
    csv_before,  \* log: the CSV file before the run / before the last call
    csv_call,    \* log: the last write_csv call, if any
    args,        \* main: the command-line arguments
    notice,      \* log: whether the latest attempt printed "RATE LIMITED"
    csv_read,    \* log: what read_csv returned for the file as it is now
    grand_total  \* get_repos_and_commit_counts: totalCount of the first
                 \* page; 0 while unset

vars == <<pc, query, variables, count, repo_data, resp_data, payload, attempt,
          resp_json, files, csv_file, resp, wrote, sent, got, sleeps,
          calls, requests, pages, csv_before, csv_call, args, notice,
          csv_read, grand_total>>

pipeline_vars == <<pc, query, variables, count, repo_data, resp_data, payload,
                   attempt, resp_json, files, resp, wrote, sent, got, sleeps,
                   calls, requests, pages, args, notice, grand_total>>

(* ---------------------------------------------------------------------- *)
(* Inputs                                                                  *)
(* ---------------------------------------------------------------------- *)
\* the query file's text and the caller's variables of a run
Runs == {[query |-> "query Repos { ... }",
          variables |-> <<<<"owner", "octocat">>>>],
         [query |-> "query ReposSince { ... }",
          variables |-> <<<<"owner", "octocat">>,
                          <<"since", "2020-01-01T00:00:00">>>>]}

\* the diagnostic files before the run: absent, or left by an earlier run
StaleFiles == [query |-> [exists |-> TRUE, text |-> <<"query Stale">>],
               payload |-> [exists |-> TRUE, text |-> <<"{", "stale", "}">>]]

NoFiles == [query |-> NoFile, payload |-> NoFile]

\* rows as format_repo makes them
\* one row as csv.DictReader builds it: the cells of a line keyed by the
\* fieldnames, a later cell replacing an earlier one under the same name
\* (write_csv writes lines as long as the header)
read_row(fieldnames, line) ==
    [k \in {fieldnames[j] : j \in 1..Len(fieldnames)} |->
        line[CHOOSE j \in 1..Len(fieldnames) :
                /\ fieldnames[j] = k
                /\ \A i \in (j + 1)..Len(fieldnames) : fieldnames[i] # k]]

\* mutant: the reader is given the fieldnames and takes every line as a row
read_csv_NoFieldnames(file) ==
    [j \in 1..Len(file.text) |-> read_row(FIELDNAMES, file.text[j])]

\* `list(csv.DictReader(f_in))`: the first line names the fields, every
\* later line is a row
read_csv(file) ==
    IF file.text = <<>>
    THEN <<>>
    ELSE [j \in 1..(Len(file.text) - 1) |->
             read_row(file.text[1], file.text[j + 1])]

RowSets == {<<>>, format_nodes(<<NodeNoCommits>>),
            format_nodes(<<NodeEmptyRepo>>),
            format_nodes(<<NodeWithCommits, NodeEmptyRepo>>)}

OldReport == [exists |-> TRUE,
              text |-> <<FIELDNAMES>>
                       \o row_lines(format_nodes(<<NodeNoCommits>>), FIELDNAMES)]

EmptyFile == [exists |-> TRUE, text |-> <<>>]

\* the working directory before a run: fresh, or as an earlier run left it
WorkDirs == {[files |-> NoFiles, csv_file |-> NoFile],
             [files |-> StaleFiles, csv_file |-> OldReport]}

\* read_csv was not called since the file last changed
NotRead == [done |-> FALSE, rows |-> <<>>]

NoCall == [called |-> FALSE, rows |-> <<>>, append |-> FALSE,
           opened |-> FALSE, header |-> FALSE]

(* ---------------------------------------------------------------------- *)
(* Spec: one run of counts_report(variables)                               *)
(* ---------------------------------------------------------------------- *)
Init ==
    /\ pc = "counts_report"
    /\ \E run \in Runs : query = run.query /\ variables = run.variables
    /\ count = 0
    /\ repo_data = <<>>
    /\ resp_data = <<>>
    /\ payload = make_payload(query, variables)
    /\ attempt = 0
    /\ resp_json = <<>>
    /\ \E dir \in WorkDirs : files = dir.files /\ csv_file = dir.csv_file
    /\ resp = <<>>
    /\ wrote = FALSE
    /\ sent = <<>>
    /\ got = <<>>
    /\ sleeps = <<>>
    /\ calls = 0
    /\ requests = <<>>
    /\ pages = <<>>
    /\ csv_before = csv_file
    /\ csv_call = NoCall
    /\ args = <<>>
    /\ notice = FALSE
    /\ csv_read = NotRead
    /\ grand_total = 0

\* what the log keeps of a Transport response: its fields' presence
shape(r) == [bad_credentials |-> r.message = "Bad credentials",
             has_errors |-> Len(r.errors) > 0,
             has_data |-> Len(r.data) > 0]

\* counts_report calls get_repos_and_commit_counts: repo_data = [], count = 0
CountsReport ==
    /\ pc = "counts_report"
    /\ UNCHANGED <<args, notice, csv_read, grand_total>>
    /\ pc' = "loop"
    /\ repo_data' = <<>>
    /\ count' = 0
    /\ UNCHANGED <<query, variables, resp_data, payload, attempt, resp_json,
                   files, csv_file, resp, wrote, sent, got, sleeps, calls,
                   requests, pages, csv_before, csv_call>>

\* top of `while True`: count += 1, query_by_filename reads the query file and
\* calls fetch_github_data, which builds the payload and enters its loop
QueryByFilename ==
    /\ pc = "loop"
    /\ UNCHANGED <<args, notice, csv_read, grand_total>>
    /\ count < MaxPages
    /\ count' = count + 1
    /\ payload' = make_payload(query, variables)
    /\ attempt' = first_attempt(attempt)
    /\ resp_json' = <<>>
    /\ sent' = <<>>
    /\ got' = <<>>
    /\ sleeps' = <<>>
    /\ requests' = Append(requests, variables)
    /\ pc' = "attempt"
    /\ UNCHANGED <<query, variables, repo_data, resp_data, files, csv_file,
                   resp, wrote, calls, pages, csv_before, csv_call>>

\* one pass of `for i in range(MAX_ATTEMPTS)`: the Transport call, _request's
\* validation and what fetch_github_data does with its outcome, up to the
\* sleep (pc "sleep"), the re-raise (pc "raised", which nothing up to main
\* catches), sys.exit (pc "exited") or the return of the data (pc "page")
Attempt ==
    /\ pc = "attempt"
    /\ UNCHANGED <<args, csv_read, grand_total>>
    /\ \E r \in Responses :
        /\ resp' = <<r>>
        /\ calls' = calls + 1
        /\ sent' = Append(sent, payload)
        /\ got' = Append(got, shape(r))
        /\ files' = request_files(payload, r, files)
        /\ wrote' = WritesDiagnostics(r)
        /\ notice' = (Outcome(r) = "ValueError" /\ rate_notice(attempt, r))
        /\ IF Outcome(r) = "exit"
           THEN /\ pc' = "exited"
                /\ UNCHANGED <<resp_json, resp_data>>
           ELSE IF Outcome(r) = "ValueError"
           THEN /\ pc' = IF IsFinalAttempt(attempt) THEN "raised" ELSE "sleep"
                /\ UNCHANGED <<resp_json, resp_data>>
           ELSE /\ resp_json' = <<r>>
                /\ resp_data' = fetch_return(resp_json')
                /\ pc' = "page"
    /\ UNCHANGED <<query, variables, count, repo_data, payload, attempt,
                   sleeps, requests, pages, csv_file, csv_before, csv_call>>

\* the rest of the except branch: sleep(1), "Retrying...", then the next i
\* of range(MAX_ATTEMPTS); were the range used up, the loop would end and
\* the function return resp_json.get("data") of the {} it started with
Sleep ==
    /\ pc = "sleep"
    /\ UNCHANGED <<args, csv_read, grand_total>>
    /\ sleeps' = Append(sleeps, seconds(attempt))
    /\ resp' = <<>>
    /\ wrote' = FALSE
    /\ notice' = FALSE
    /\ IF attempt + 1 < MAX_ATTEMPTS
       THEN /\ attempt' = attempt + 1
            /\ pc' = "attempt"
            /\ UNCHANGED resp_data
       ELSE /\ resp_data' = fetch_return(resp_json)
            /\ pc' = "page"
            /\ UNCHANGED attempt
    /\ UNCHANGED <<query, variables, count, repo_data, payload, resp_json,
                   files, csv_file, sent, got, calls, requests, pages,
                   csv_before, csv_call>>

\* `ITEMS_PER_PAGE = 100`
ITEMS_PER_PAGE == 100

\* `math.ceil(grand_total/ITEMS_PER_PAGE)`: the page count printed after the
\* first page
page_count(total) == (total + ITEMS_PER_PAGE - 1) \div ITEMS_PER_PAGE

\* mutant: the loop runs for the page count computed on the first page
has_next_page_ByPageCount(repositories, n, total) == n < page_count(total)

\* `if repo_page_info['hasNextPage']: ... else: break` on page n of a listing
\* whose first page gave the total
has_next_page(repositories, n, total) == repositories.hasNextPage

\* mutant: the cursor is set once and not advanced after that
next_variables_KeepFirst(v, page_info) ==
    IF page_info.hasNextPage /\ ~dict_has(v, "cursor")
    THEN dict_set(v, "cursor", page_info.endCursor)
    ELSE v

\* `variables['cursor'] = repo_page_info['endCursor']` when hasNextPage
next_variables(v, page_info) ==
    IF page_info.hasNextPage THEN dict_set(v, "cursor", page_info.endCursor)
    ELSE v

\* the rest of the loop body: the nodes are formatted and appended, then the
\* cursor is set for the next iteration or the loop breaks and returns.
\* Subscripting a None resp_data is a TypeError, which nothing catches.
ProcessPage ==
    /\ pc = "page"
    /\ UNCHANGED <<args, notice, csv_read>>
    /\ IF resp_data = <<>>
       THEN /\ pc' = "TypeError"
            /\ UNCHANGED <<repo_data, pages, variables, grand_total>>
       ELSE LET repositories == resp_data[1]
            IN /\ repo_data' = repo_data \o format_nodes(repositories.nodes)
               /\ pages' = Append(pages,
                                  [nodes |-> repositories.nodes,
                                   hasNextPage |-> repositories.hasNextPage,
                                   endCursor |-> repositories.endCursor])
               /\ grand_total' = IF count = 1 THEN repositories.totalCount
                                 ELSE grand_total
               /\ variables' = next_variables(variables, repositories)
               /\ pc' = IF has_next_page(repositories, count, grand_total')
                        THEN "loop" ELSE "return"
    /\ resp_data' = <<>>
    /\ resp_json' = <<>>
    /\ resp' = <<>>
    /\ UNCHANGED <<query, count, payload, attempt, files, csv_file, wrote,
                   sent, got, sleeps, calls, requests, csv_before, csv_call>>

\* counts_report: lib.write_csv(lib.COUNTS_CSV_PATH_TODAY, out_data)
WriteReport ==
    /\ pc = "return"
    /\ UNCHANGED <<args, notice, csv_read, grand_total>>
    /\ LET w == write_csv(csv_file, repo_data, FALSE)
       IN /\ csv_file' = w.file
          /\ csv_call' = [called |-> TRUE, rows |-> repo_data,
                          append |-> FALSE, opened |-> w.opened,
                          header |-> w.header]
    /\ pc' = "done"
    /\ UNCHANGED <<query, variables, count, repo_data, resp_data, payload,
                   attempt, resp_json, files, resp, wrote, sent, got, sleeps,
                   calls, requests, pages, csv_before>>

Next ==
    \/ CountsReport
    \/ QueryByFilename
    \/ Attempt
    \/ Sleep
    \/ ProcessPage
    \/ WriteReport

Spec == Init /\ [][Next]_vars

(* ---------------------------------------------------------------------- *)
(* SpecCsv: any sequence of write_csv calls on one path                    *)
(* ---------------------------------------------------------------------- *)
InitCsv ==
    /\ pc = "csv"
    /\ query = ""
    /\ variables = <<>>
    /\ count = 0
    /\ repo_data = <<>>
    /\ resp_data = <<>>
    /\ payload = make_payload(query, variables)
    /\ attempt = 0
    /\ resp_json = <<>>
    /\ files = NoFiles
    /\ csv_file \in {NoFile, EmptyFile, OldReport}
    /\ resp = <<>>
    /\ wrote = FALSE
    /\ sent = <<>>
    /\ got = <<>>
    /\ sleeps = <<>>
    /\ calls = 0
    /\ requests = <<>>
    /\ pages = <<>>
    /\ csv_before = csv_file
    /\ csv_call = NoCall
    /\ args = <<>>
    /\ notice = FALSE
    /\ csv_read = NotRead
    /\ grand_total = 0

WriteCsv ==
    /\ pc = "csv"
    /\ Len(csv_file.text) < MaxLines
    /\ \E rows \in RowSets, append \in BOOLEAN :
        LET w == write_csv(csv_file, rows, append)
        IN /\ csv_file' = w.file
           /\ csv_before' = csv_file
           /\ csv_call' = [called |-> TRUE, rows |-> rows, append |-> append,
                           opened |-> w.opened, header |-> w.header]
    /\ csv_read' = NotRead
    /\ UNCHANGED pipeline_vars

\* read_csv(path) on the file as it is (a missing file makes open() raise)
ReadCsv ==
    /\ pc = "csv"
    /\ csv_file.exists
    /\ ~csv_read.done
    /\ csv_read' = [done |-> TRUE, rows |-> read_csv(csv_file)]
    /\ UNCHANGED <<csv_file, csv_before, csv_call>>
    /\ UNCHANGED pipeline_vars

NextCsv == WriteCsv \/ ReadCsv

SpecCsv == InitCsv /\ [][NextCsv]_vars

(* ---------------------------------------------------------------------- *)
(* What the log says of the current fetch_github_data call                 *)
(* ---------------------------------------------------------------------- *)
\* the shape of a response that fails recoverably, and of one that succeeds
FailsRecoverably(g) == ~g.bad_credentials /\ (g.has_errors \/ ~g.has_data)

Succeeds(g) == ~g.bad_credentials /\ ~g.has_errors /\ g.has_data

AllHaveErrors == \A j \in 1..Len(got) : got[j].has_errors

NoBadCredentials == \A j \in 1..Len(got) : ~got[j].bad_credentials

(* ---------------------------------------------------------------------- *)
(* C1                                                                      *)
(* ---------------------------------------------------------------------- *)
\* C1 as stated: whenever every Transport response of a fetch_github_data
\* call carried a non-empty errors list, the call is still retrying or has
\* raised, it has raised exactly when MAX_ATTEMPTS calls were made, and it
\* never made more calls, exited or returned.
C1_AllErrorsRaisesAfterMaxAttempts ==
    (Len(got) > 0 /\ AllHaveErrors) =>
        /\ pc \in {"attempt", "sleep", "raised"}
        /\ Len(sent) <= MAX_ATTEMPTS
        /\ (pc = "raised") = (Len(sent) = MAX_ATTEMPTS)

\* C1 amended: the same, for calls none of whose responses carries the
\* "Bad credentials" message (such a response ends the program at once,
\* whatever its errors list holds).
C1_AllErrorsNoBadCredentialsRaisesAfterMaxAttempts ==
    (Len(got) > 0 /\ AllHaveErrors /\ NoBadCredentials) =>
        /\ pc \in {"attempt", "sleep", "raised"}
        /\ Len(sent) <= MAX_ATTEMPTS
        /\ Len(sent) = Len(got)
        /\ (pc = "raised") = (Len(sent) = MAX_ATTEMPTS)
        /\ resp_data = <<>>

C1_Witness ==
    /\ pc = "raised"
    /\ Len(sent) = MAX_ATTEMPTS
    /\ AllHaveErrors
    /\ NoBadCredentials

(* ---------------------------------------------------------------------- *)
(* C2                                                                      *)
(* ---------------------------------------------------------------------- *)
\* C2: when the responses of a call are k-1 recoverable failures followed by
\* a success (1 <= k <= MAX_ATTEMPTS), the call made exactly k Transport
\* calls and returned; what it returns is the data of the k-th response,
\* which is not null; and a call returns only so.
C2_SuccessOnAttemptK ==
    /\ \A k \in 1..MAX_ATTEMPTS :
          ( /\ Len(got) >= k
            /\ Succeeds(got[k])
            /\ \A j \in 1..(k - 1) : FailsRecoverably(got[j]) )
          => /\ Len(got) = k
             /\ Len(sent) = k
             /\ pc \in {"page", "loop", "return", "done"}
             /\ (pc = "page" =>
                    /\ resp # <<>>
                    /\ resp_data = resp[1].data
                    /\ resp_data # <<>>
                    /\ Len(resp[1].errors) = 0)
    /\ (pc = "page" =>
          /\ Len(got) \in 1..MAX_ATTEMPTS
          /\ Succeeds(got[Len(got)])
          /\ \A j \in 1..(Len(got) - 1) : FailsRecoverably(got[j])
          /\ resp_data # <<>>)

C2_Witness ==
    /\ pc = "page"
    /\ Len(sent) = MAX_ATTEMPTS
    /\ got[1].has_data
    /\ got[1].has_errors
    /\ ~got[2].has_data
    /\ resp_data # <<>>
    /\ resp_data[1] # PartialData

(* ---------------------------------------------------------------------- *)
(* C3                                                                      *)
(* ---------------------------------------------------------------------- *)
\* the latest Transport response carries the "Bad credentials" message
BadCredentialsReceived == resp # <<>> /\ resp[1].message = "Bad credentials"

\* C3: a step that receives a "Bad credentials" response, on any attempt and
\* whatever its errors and data hold, ends in sys.exit with that one
\* Transport call made, no sleep, no diagnostic file written and nothing
\* returned; and the exited program takes no further step.
C3_BadCredentialsTerminates ==
    [][ /\ pc # "exited"
        /\ BadCredentialsReceived' =>
              /\ pc' = "exited"
              /\ calls' = calls + 1
              /\ sleeps' = sleeps
              /\ files' = files
              /\ ~wrote'
              /\ resp_data' = <<>>
              /\ repo_data' = repo_data ]_vars

C3_Witness ==
    /\ pc = "exited"
    /\ count = 2
    /\ Len(sent) = 2
    /\ Len(resp[1].errors) > 0
    /\ resp[1].data # <<>>
    /\ files = StaleFiles

(* ---------------------------------------------------------------------- *)
(* C4                                                                      *)
(* ---------------------------------------------------------------------- *)
\* the latest Transport response carries a non-empty errors list
ErrorsReceived == resp # <<>> /\ Len(resp[1].errors) > 0

\* C4 as stated: a response with a non-empty errors list is classified as a
\* recoverable error (the call sleeps to retry, or re-raises), and nothing
\* of it is returned.
C4_ErrorsAreRecoverable ==
    ErrorsReceived =>
        /\ pc \in {"sleep", "raised"}
        /\ resp_json = <<>>
        /\ resp_data = <<>>

\* C4 amended: a response with a non-empty errors list, with or without
\* data, is never accepted: it is the fatal error when its message is
\* "Bad credentials" and a recoverable error otherwise, its data is not
\* returned by the executor, and no step appends it to the accumulator.
C4_ErrorsNeverAccepted ==
    [][ /\ ErrorsReceived' =>
              /\ pc' \in {"sleep", "raised", "exited"}
              /\ (pc' = "exited") = (resp'[1].message = "Bad credentials")
              /\ resp_json' = <<>>
              /\ resp_data' = <<>>
              /\ repo_data' = repo_data
              /\ pages' = pages
        /\ ErrorsReceived => (repo_data' = repo_data /\ pages' = pages) ]_vars

C4_Witness ==
    /\ ErrorsReceived
    /\ resp[1].data # <<>>
    /\ resp[1].message # "Bad credentials"
    /\ pc = "sleep"
    /\ count = 2
    /\ Len(repo_data) = 2

(* ---------------------------------------------------------------------- *)
(* C5                                                                      *)
(* ---------------------------------------------------------------------- *)
\* the two diagnostic files hold the query and the serialized payload of
\* the request of the current call
DiagnosticsOfThisRequest ==
    /\ files.query = [exists |-> TRUE, text |-> <<payload.query>>]
    /\ files.payload = [exists |-> TRUE, text |-> json_dumps(payload)]
    /\ payload = make_payload(query, variables)

RECURSIVE AllNodes(_)
\* the nodes of a sequence of pages, in the order the API returned them
AllNodes(ps) ==
    IF ps = <<>> THEN <<>> ELSE Head(ps).nodes \o AllNodes(Tail(ps))

RECURSIVE SumOfNodeCounts(_)
SumOfNodeCounts(ps) ==
    IF ps = <<>> THEN 0 ELSE Len(Head(ps).nodes) + SumOfNodeCounts(Tail(ps))

\* C6: when get_repos_and_commit_counts has returned, after n pages of which
\* the last alone reports hasNextPage = false, it issued exactly n executor
\* requests, request i+1 with the endCursor of page i as its cursor, and its rows are the formatted nodes of pages
\* 1..n in the API's order, one row per node.
C6_PaginationThreadsCursorAndConcatenates ==
    pc \in {"return", "done"} =>
        LET n == Len(pages)
            nodes == AllNodes(pages)
        IN /\ n >= 1
           /\ ~pages[n].hasNextPage
           /\ \A i \in 1..(n - 1) : pages[i].hasNextPage
           /\ Len(requests) = n
           /\ count = n
           /\ \A i \in 1..(n - 1) :
                 dict_get(requests[i + 1], "cursor") = <<pages[i].endCursor>>
           /\ Len(repo_data) = SumOfNodeCounts(pages)
           /\ Len(repo_data) = Len(nodes)
           /\ \A j \in 1..Len(nodes) :
                 /\ repo_data[j] = format_repo(nodes[j])
                 /\ repo_data[j].repo_name.s = nodes[j].name

C6_Witness ==
    /\ pc = "return"
    /\ Len(pages) = 3
    /\ pages[1].endCursor # pages[2].endCursor
    /\ pages[1].nodes # <<>>
    /\ pages[2].nodes = <<>>
    /\ pages[3].nodes # <<>>
    /\ Len(repo_data) = 4
    /\ calls > 3

(* ---------------------------------------------------------------------- *)
(* C7                                                                      *)
(* ---------------------------------------------------------------------- *)
\* the executor used up its attempts on the current page
ExecutorFailed ==
    /\ Len(got) = MAX_ATTEMPTS
    /\ \A j \in 1..Len(got) : FailsRecoverably(got[j])

\* C7: once the executor has used up its attempts on a page, the first or a
\* later one, the run has failed with the error: it takes no further step
\* (the rows are not returned), write_csv was not called, and the report
\* file is as it was before the run.
C7_ExecutorFailureWritesNoReport ==
    ExecutorFailed =>
        /\ pc = "raised"
        /\ ~ENABLED Next
        /\ ~csv_call.called
        /\ csv_file = csv_before

C7_Witness ==
    /\ ExecutorFailed
    /\ pc = "raised"
    /\ count = 2
    /\ Len(repo_data) = 2
    /\ csv_file = OldReport

(* ---------------------------------------------------------------------- *)
(* C8 (under SpecCsv)                                                      *)
(* ---------------------------------------------------------------------- *)
\* the header rule: the target did not exist at the call, or append is false
HeaderRule == ~csv_before.exists \/ ~csv_call.append

C9_EmptyRowsNoFileOperation ==
    (csv_call.called /\ csv_call.rows = <<>>) =>
        /\ ~csv_call.opened
        /\ ~csv_call.header
        /\ csv_file = csv_before

C9_Witness ==
    /\ csv_call.called
    /\ csv_call.rows = <<>>
    /\ ~csv_call.append
    /\ csv_before.exists
    /\ Len(csv_before.text) >= 2

ArgLists == {<<>>,
             <<"--help">>,
             <<"owner">>,
             <<"owner", "octocat">>,
             <<"owner", "octocat", "start">>,
             <<"owner", "octocat", "start", "2020-1-1">>,
             <<"owner", "octocat", "start", "">>,
             <<"owner", "octocat", "start", "yesterday">>,
             <<"start", "2020-01-01", "owner", "octocat", "isFork", "true">>}

InitMain ==
    /\ pc = "main"
    /\ args \in ArgLists
    /\ query = "query Repos { ... }"
    /\ variables = <<>>
    /\ count = 0
    /\ repo_data = <<>>
    /\ resp_data = <<>>
    /\ payload = make_payload(query, variables)
    /\ attempt = 0
    /\ resp_json = <<>>
    /\ files = NoFiles
    /\ csv_file = OldReport
    /\ resp = <<>>
    /\ wrote = FALSE
    /\ sent = <<>>
    /\ got = <<>>
    /\ sleeps = <<>>
    /\ calls = 0
    /\ requests = <<>>
    /\ pages = <<>>
    /\ csv_before = csv_file
    /\ csv_call = NoCall
    /\ notice = FALSE
    /\ csv_read = NotRead
    /\ grand_total = 0

\* main: the usage exit, or process_variables and on to counts_report; the
\* ValueError of process_variables is caught nowhere
Main ==
    /\ pc = "main"
    /\ IF wants_usage(args)
       THEN /\ pc' = "usage"
            /\ UNCHANGED variables
       ELSE LET r == process_variables(args)
            IN IF r.raised
               THEN /\ pc' = "ValueError"
                    /\ UNCHANGED variables
               ELSE /\ pc' = "counts_report"
                    /\ variables' = r.value
    /\ UNCHANGED <<query, count, repo_data, resp_data, payload, attempt,
                   resp_json, files, csv_file, resp, wrote, sent, got, sleeps,
                   calls, requests, pages, csv_before, csv_call, args, notice,
                   csv_read, grand_total>>

NextMain ==
    \/ Main
    \/ CountsReport
    \/ QueryByFilename
    \/ Attempt
    \/ Sleep
    \/ ProcessPage
    \/ WriteReport

SpecMain == InitMain /\ [][NextMain]_vars

(* ---------------------------------------------------------------------- *)
(* C11 (under SpecMain)                                                    *)
(* ---------------------------------------------------------------------- *)
\* the command line is key/value strings (no help flag), an odd number
OddArgs == ~wants_usage(args) /\ Len(args) % 2 = 1

\* C11: when main is given an odd number of key/value strings, the run is
\* still in main or has ended with the ValueError of process_variables: no
\* executor request and no Transport call was made, write_csv was not
\* called, the report file is as it was, and nothing more happens.
C11_OddArgsRaiseBeforeAnyQuery ==
    OddArgs =>
        /\ pc \in {"main", "ValueError"}
        /\ calls = 0
        /\ requests = <<>>
        /\ sent = <<>>
        /\ ~csv_call.called
        /\ csv_file = csv_before
        /\ (pc = "ValueError" => ~ENABLED NextMain)

C11_Witness ==
    /\ OddArgs
    /\ Len(args) = 3
    /\ pc = "ValueError"
    /\ csv_file = OldReport

(* ---------------------------------------------------------------------- *)
(* C12 (under SpecMain)                                                    *)
(* ---------------------------------------------------------------------- *)
\* key k is given on the command line (at an odd position)
Given(k) == \E j \in 1..Len(args) : j % 2 = 1 /\ args[j] = k

\* the value given for key k: the one of its last occurrence
GivenValue(k) ==
    LET last == CHOOSE j \in 1..Len(args) :
                    /\ j % 2 = 1
                    /\ args[j] = k
                    /\ \A i \in (j + 1)..Len(args) : i % 2 = 0 \/ args[i] # k
    IN args[last + 1]

\* what C12 says of the mapping m that process_variables returns
IsProcessed(m) ==
    /\ ~dict_has(m, "start")
    /\ Given("start") =>
          /\ dict_has(m, "since")
          /\ is_date(GivenValue("start"))
          /\ dict_get(m, "since") = <<as_git_timestamp(GivenValue("start"))>>
    /\ Given("isFork") =>
          /\ dict_has(m, "isFork")
          /\ dict_get(m, "isFork")[1] \in {PY_TRUE, PY_FALSE}
    /\ \A j \in 1..Len(args) :
          (j % 2 = 1 /\ args[j] \notin {"start", "isFork", "since"})
              => dict_get(m, args[j]) = <<GivenValue(args[j])>>

\* C12 as stated: for an even-length argument list for which
\* process_variables returned, the mapping it returned has no `start` key,
\* has `since` with the timestamp of the start value whenever `start` was
\* given, has a boolean `isFork` whenever `isFork` was given, and keeps the
\* other keys' strings; and it is the variables of the first request.
C12_VariablesAreProcessedArgs ==
    (~wants_usage(args) /\ Len(args) % 2 = 0) =>
        /\ (pc = "counts_report" => IsProcessed(variables))
        /\ (requests # <<>> => IsProcessed(requests[1]))

(* ---------------------------------------------------------------------- *)
(* C13                                                                     *)
(* ---------------------------------------------------------------------- *)
\* C13 as stated: when the pagination has returned, the caller's mapping,
\* which is the object the paginator was given and the first request was
\* made with, is as it was at the call: no cursor key added or altered.
C13_CallerVariablesUnchanged ==
    pc \in {"return", "done"} => variables = requests[1]

(* ---------------------------------------------------------------------- *)
(* C14 (under SpecCsv)                                                     *)
(* ---------------------------------------------------------------------- *)
\* Python's str(value)
py_str(v) ==
    IF v.t = "None" THEN "None"
    ELSE IF v.t = "int" THEN ToString(v.n)
    ELSE v.s

\* read_csv ran on the file that write_csv just wrote, in overwrite mode,
\* from a non-empty row set
RoundTrip ==
    /\ csv_call.called
    /\ csv_call.rows # <<>>
    /\ ~csv_call.append
    /\ csv_read.done

\* the rows read are as many as the rows written, in the same order and
\* with the same keys
SameShape ==
    /\ Len(csv_read.rows) = Len(csv_call.rows)
    /\ \A j \in 1..Len(csv_call.rows) :
          DOMAIN csv_read.rows[j] = DOMAIN csv_call.rows[j]

C15_OneFixedSleepBetweenAttempts ==
    /\ \A j \in 1..Len(sleeps) : sleeps[j] = 1
    /\ (sent = <<>> => sleeps = <<>>)
    /\ (pc = "attempt" => Len(sleeps) = Len(sent) /\ Len(sent) = attempt)
    /\ (pc = "sleep" =>
           /\ Len(sleeps) = Len(sent) - 1
           /\ Len(sent) < MAX_ATTEMPTS
           /\ FailsRecoverably(got[Len(got)]))
    /\ ((pc \notin {"attempt", "sleep"} /\ sent # <<>>)
           => Len(sleeps) = Len(sent) - 1)
    /\ (pc = "raised" => Len(sent) = MAX_ATTEMPTS /\ ~ENABLED Next)

C15_Witness ==
    /\ pc = "page"
    /\ Len(sent) = MAX_ATTEMPTS
    /\ sleeps = <<1, 1>>
    /\ count = 2

(* ---------------------------------------------------------------------- *)
(* C16                                                                     *)
(* ---------------------------------------------------------------------- *)
\* the latest attempt raised a recoverable error whose rendering holds "rate"
RateError ==
    /\ pc \in {"sleep", "raised"}
    /\ resp # <<>>
    /\ has_rate(resp[1])

\* C16 as stated: every recoverable error whose rendering holds "rate" has
\* made the executor print the rate-limit notice, on whichever attempt.
C16_RateErrorAlwaysNotified == RateError => notice

\* C16, amended: a step that receives a recoverable error whose rendering
\* holds "rate" prints the notice exactly when the attempt is not the final
\* one, and re-raises exactly when it is, as for any other recoverable error;
\* the step after a notice is the same 1 second sleep followed by the next
\* attempt.
C16_RateErrorNotifiedUnlessFinal ==
    [][ /\ (pc = "attempt" /\ RateError') =>
              /\ notice' = ~IsFinalAttempt(attempt)
              /\ (pc' = "raised") = (attempt + 1 = MAX_ATTEMPTS)
              /\ sleeps' = sleeps
        /\ (pc = "sleep" /\ notice) =>
              /\ sleeps' = Append(sleeps, 1)
              /\ attempt' = attempt + 1
              /\ pc' = "attempt"
              /\ calls' = calls ]_vars

C16_Witness ==
    /\ pc = "raised"
    /\ RateError
    /\ ~HasErrors(resp[1])
    /\ ~notice
    /\ Len(sleeps) = 2

(* ---------------------------------------------------------------------- *)
(* C17                                                                     *)
(* ---------------------------------------------------------------------- *)
\* the latest page the executor returned says it is the last one
LastPageReached == pages # <<>> /\ ~pages[Len(pages)].hasNextPage

\* C17: the pagination has returned exactly when the latest page reported
\* hasNextPage = false, whatever totalCount and the page count computed on
\* the first page are; every page before it reported hasNextPage = true;
\* once returned, no request was issued after that page and the variables
\* are those of the last request, that page's endCursor not placed in them;
\* while every page so far reported hasNextPage = true the pagination has
\* not returned and, below the bound of the model, goes on to a next request.
C17_LoopEndsAtFirstLastPage ==
    /\ (pc \in {"return", "done"}) = LastPageReached
    /\ \A j \in 1..(Len(pages) - 1) : pages[j].hasNextPage
    /\ LastPageReached =>
          /\ Len(requests) = Len(pages)
          /\ count = Len(pages)
          /\ variables = requests[Len(requests)]
          /\ ~ENABLED QueryByFilename
          /\ ~ENABLED Attempt
    /\ (pc = "loop" /\ count < MaxPages) => ENABLED QueryByFilename

\* three pages were fetched although the first page announced one
C17_Witness ==
    /\ pc = "return"
    /\ Len(pages) = 3
    /\ page_count(grand_total) = 1
    /\ dict_has(variables, "cursor")

(* ---------------------------------------------------------------------- *)
(* C18 (under SpecCsv)                                                     *)
(* ---------------------------------------------------------------------- *)
\* the file is one header row, as its first line, followed by data rows only
HeaderOnce(file) ==
    /\ file.exists
    /\ file.text # <<>>
    /\ file.text[1] = FIELDNAMES
    /\ \A j \in 2..Len(file.text) : file.text[j] # FIELDNAMES

HeaderOnceOrAbsent(file) == ~file.exists \/ HeaderOnce(file)

\* C18 as stated: after any sequence of write_csv calls on one path the
\* file does not exist or is one header row followed by data rows only,
\* whether the path was absent, a written report or an empty file at first.
C18_HeaderOnceAlways == csv_call.called => HeaderOnceOrAbsent(csv_file)

\* C18, amended: every write_csv call (overwrite or append, empty or
\* non-empty rows) on a path that is absent or holds one header row followed
\* by data rows only leaves it absent or so; and a call in overwrite mode
\* with a non-empty row set leaves such a file whatever was there before.
C18_HeaderOncePreserved ==
    [][ /\ HeaderOnceOrAbsent(csv_file) => HeaderOnceOrAbsent(csv_file')
        /\ (csv_call'.called /\ csv_call'.rows # <<>> /\ ~csv_call'.append)
              => HeaderOnce(csv_file') ]_vars

C18_Witness ==
    /\ csv_call.called
    /\ csv_call.append
    /\ csv_call.rows # <<>>
    /\ HeaderOnce(csv_before)
    /\ HeaderOnce(csv_file)
    /\ Len(csv_file.text) >= 4
    /\ ~csv_call.header

(* ---------------------------------------------------------------------- *)
(* C19                                                                     *)
(* ---------------------------------------------------------------------- *)
\* C19: every Transport call made for the current page, retries included,
\* carried the query and the variables of that page's request; the
\* variables of request i > 1 are those of the first request with `cursor`
\* set to the endCursor of page i-1; a request is made only after the page
\* before it was returned, and while a page is being tried or retried the
\* variables are still those of its request.
C19_SamePayloadPerPageCursorFromPreviousPage ==
    /\ Len(requests) = count
    /\ Len(pages) \in {count - 1, count}
    /\ \A j \in 1..Len(sent) :
          /\ sent[j].query = query
          /\ sent[j].variables = requests[count]
    /\ \A i \in 2..Len(requests) :
          /\ Len(pages) >= i - 1
          /\ requests[i] = dict_set(requests[1], "cursor",
                                    pages[i - 1].endCursor)
    /\ (pc \in {"attempt", "sleep", "page", "raised", "exited"}
           => variables = requests[count] /\ Len(pages) = count - 1)

\* the second page was fetched on its third attempt, with the first page's
\* cursor, after the first page had needed a retry as well
C19_Witness ==
    /\ pc = "page"
    /\ count = 2
    /\ Len(sent) = 3
    /\ calls = 5
    /\ sent[1].variables = sent[3].variables
    /\ dict_get(sent[3].variables, "cursor") = <<pages[1].endCursor>>
    /\ ~dict_has(requests[1], "cursor")

(* ---------------------------------------------------------------------- *)
(* C20                                                                     *)
(* ---------------------------------------------------------------------- *)
\* C20: every iteration made one executor request; each call to the
\* executor starts at attempt 0 and has made as many Transport calls as
\* attempts so far, never more than MAX_ATTEMPTS; a pagination of n pages
\* that has completed made between n and MAX_ATTEMPTS * n Transport calls;
\* and a pagination has failed only with MAX_ATTEMPTS Transport calls made
\* for its one current page, all of them recoverable failures.
C20_AttemptBudgetIsPerPage ==
    /\ Len(requests) = count
    /\ Len(sent) <= MAX_ATTEMPTS
    /\ (pc = "attempt" => attempt = Len(sent) /\ attempt < MAX_ATTEMPTS)
    /\ (pc \in {"loop", "return", "done"} => Len(pages) = count)
    /\ (pc \in {"return", "done"} =>
           /\ calls >= Len(pages)
           /\ calls <= MAX_ATTEMPTS * Len(pages))
    /\ (pc = "raised" =>
           /\ Len(sent) = MAX_ATTEMPTS
           /\ calls >= Len(pages) + MAX_ATTEMPTS
           /\ \A j \in 1..Len(got) : FailsRecoverably(got[j]))

\* two pages, each fetched on its third attempt
C20_Witness ==
    /\ pc = "return"
    /\ Len(pages) = 2
    /\ calls = 2 * MAX_ATTEMPTS
    /\ Len(sent) = MAX_ATTEMPTS

====
